---- MODULE Spec2Model ----
(***************************************************************************)
(* A model of the CHIP-8 interpreter of src/src/main.c and of the part of  *)
(* src/src/platform.h it relies on (key states, beep).                     *)
(*                                                                         *)
(* The machine state is the struct Chip8 (variable c), the static local    *)
(* `store` of the FX0A case, and the position of main's frame loop.        *)
(* Arrays whose elements start at zero (mem, display) are kept as finite   *)
(* maps holding the nonzero bytes only; a missing index reads as 0.        *)
(***************************************************************************)
EXTENDS Integers, Sequences, FiniteSets, TLC

----------------------------------------------------------------------------
(* Program constants.                                                      *)

BYTE_SIZE == 8
REG_COUNT == 16
MEM_SIZE == 4096
STACK_SIZE == 16
FONT_DATA_OFFSET == 80
DISPLAY_WIDTH == 8
DISPLAY_HEIGHT == 32
DISPLAY_SIZE == DISPLAY_HEIGHT * DISPLAY_WIDTH
PROGRAM_START_OFFSET == 512
CKEY_ESC == 16
QUIRK_SHIFT_USE_VY == 1
QUIRK_BXNN == 2
QUIRK_INC_INDEX == 4

FONT_DATA ==
    << 240, 144, 144, 144, 240,    32,  96,  32,  32, 112,
       240,  16, 240, 128, 240,   240,  16, 240,  16, 240,
       144, 144, 240,  16,  16,   240, 128, 240,  16, 240,
       240, 128, 240, 144, 240,   240,  16,  32,  64,  64,
       240, 144, 240, 144, 240,   240, 144, 240,  16, 240,
       240, 144, 240, 144, 144,   224, 144, 224, 144, 224,
       240, 128, 128, 128, 240,   224, 144, 144, 144, 224,
       240, 128, 240, 128, 240,   240, 128, 240, 128, 128 >>

----------------------------------------------------------------------------
(* Fixed-width integer arithmetic.                                         *)

U8(n) == n % 256
U16(n) == n % 65536

Bit(n, k) == (n \div (2 ^ k)) % 2

RECURSIVE BitAnd(_, _)
BitAnd(a, b) ==
    IF a = 0 THEN 0
    ELSE IF b = 0 THEN 0
    ELSE ((a % 2) * (b % 2)) + 2 * BitAnd(a \div 2, b \div 2)

RECURSIVE BitOr(_, _)
BitOr(a, b) ==
    IF a = 0 THEN b
    ELSE IF b = 0 THEN a
    ELSE (IF (a % 2) + (b % 2) > 0 THEN 1 ELSE 0) + 2 * BitOr(a \div 2, b \div 2)

RECURSIVE BitXor(_, _)
BitXor(a, b) ==
    IF a = 0 THEN b
    ELSE IF b = 0 THEN a
    ELSE ((a + b) % 2) + 2 * BitXor(a \div 2, b \div 2)

(* Byte n (0 = least significant) of a little-endian integer field.        *)
ByteOf(word, n) == (word \div (256 ^ n)) % 256
SetByte(word, n, b) == word - ByteOf(word, n) * (256 ^ n) + b * (256 ^ n)

----------------------------------------------------------------------------
(* Instruction fields.                                                     *)

OP(instr) == instr \div 4096
X(instr) == (instr \div 256) % 16
Y(instr) == (instr \div 16) % 16
N(instr) == instr % 16
NN(instr) == instr % 256
NNN(instr) == instr % 4096

----------------------------------------------------------------------------
(* Zero-initialised byte arrays as finite maps of their nonzero bytes.     *)

Get(f, k) == IF k \in DOMAIN f THEN f[k] ELSE 0

Put(f, k, b) ==
    IF b = 0
    THEN [a \in (DOMAIN f) \ {k} |-> f[a]]
    ELSE [a \in (DOMAIN f) \cup {k} |-> IF a = k THEN b ELSE f[a]]

----------------------------------------------------------------------------
(* Key states (platform.h).                                                *)

KEY_FLAG(key) == 2 ^ key
KEY_DOWN(keystate, key) == BitAnd(keystate, KEY_FLAG(key)) = KEY_FLAG(key)

----------------------------------------------------------------------------
(* struct Chip8 in storage.  The code indexes mem, stack and display       *)
(* without bounds checks; an index past the end of an array is undefined   *)
(* behaviour.  The outcomes modelled, one per build (variable ub):         *)
(*   "layout_store_first", "layout_store_last": the access lands on the    *)
(*       bytes that follow the array in the struct (little-endian fields,  *)
(*       natural alignment); the two differ in whether stack[sp++] = pc    *)
(*       stores the element before or after it stores the incremented sp;  *)
(*   "discard": a store past the end is dropped and a load past the end    *)
(*       yields an arbitrary value.                                        *)
(* Bytes past the modelled fields read as arbitrary values (g) and stores  *)
(* to them change nothing the model holds.                                 *)

UBModes == {"layout_store_first", "layout_store_last", "discard"}

Align4(n) == ((n + 3) \div 4) * 4

OFF_pc == MEM_SIZE
OFF_i == OFF_pc + 2
OFF_stack == OFF_i + 2
OFF_sp == OFF_stack + 2 * STACK_SIZE
OFF_delay_timer == OFF_sp + 1
OFF_sound_timer == OFF_delay_timer + 1
OFF_v == OFF_sound_timer + 1
OFF_display == OFF_v + REG_COUNT
OFF_keys == Align4(OFF_display + DISPLAY_SIZE)
OFF_config == OFF_keys + 4
OFF_quirks == OFF_config + 8
OFF_fg_text == OFF_quirks + 4

StoreByte(s, off, b) ==
    IF off < OFF_pc THEN [s EXCEPT !.mem = Put(@, off, b)]
    ELSE IF off < OFF_i THEN [s EXCEPT !.pc = SetByte(@, off - OFF_pc, b)]
    ELSE IF off < OFF_stack THEN [s EXCEPT !.i = SetByte(@, off - OFF_i, b)]
    ELSE IF off < OFF_sp
        THEN [s EXCEPT !.stack[(off - OFF_stack) \div 2] =
                            SetByte(@, (off - OFF_stack) % 2, b)]
    ELSE IF off = OFF_sp THEN [s EXCEPT !.sp = b]
    ELSE IF off = OFF_delay_timer THEN [s EXCEPT !.delay_timer = b]
    ELSE IF off = OFF_sound_timer THEN [s EXCEPT !.sound_timer = b]
    ELSE IF off < OFF_display THEN [s EXCEPT !.v[off - OFF_v] = b]
    ELSE IF off < OFF_display + DISPLAY_SIZE
        THEN [s EXCEPT !.display = Put(@, off - OFF_display, b)]
    ELSE IF off < OFF_keys THEN s
    ELSE IF off < OFF_config THEN [s EXCEPT !.keys = SetByte(@, off - OFF_keys, b)]
    ELSE IF off < OFF_config + 4
        THEN [s EXCEPT !.config.instructions_per_frame = SetByte(@, off - OFF_config, b)]
    ELSE IF off < OFF_quirks
        THEN [s EXCEPT !.config.frames_per_sec = SetByte(@, off - OFF_config - 4, b)]
    ELSE IF off < OFF_fg_text
        THEN [s EXCEPT !.config.quirks = SetByte(@, off - OFF_quirks, b)]
    ELSE s

LoadByte(s, off, g) ==
    IF off < OFF_pc THEN Get(s.mem, off)
    ELSE IF off < OFF_i THEN ByteOf(s.pc, off - OFF_pc)
    ELSE IF off < OFF_stack THEN ByteOf(s.i, off - OFF_i)
    ELSE IF off < OFF_sp
        THEN ByteOf(s.stack[(off - OFF_stack) \div 2], (off - OFF_stack) % 2)
    ELSE IF off = OFF_sp THEN s.sp
    ELSE IF off = OFF_delay_timer THEN s.delay_timer
    ELSE IF off = OFF_sound_timer THEN s.sound_timer
    ELSE IF off < OFF_display THEN s.v[off - OFF_v]
    ELSE IF off < OFF_display + DISPLAY_SIZE THEN Get(s.display, off - OFF_display)
    ELSE IF off < OFF_keys THEN ByteOf(g, off % 2)
    ELSE IF off < OFF_config THEN ByteOf(s.keys, off - OFF_keys)
    ELSE IF off < OFF_config + 4
        THEN ByteOf(s.config.instructions_per_frame, off - OFF_config)
    ELSE IF off < OFF_quirks THEN ByteOf(s.config.frames_per_sec, off - OFF_config - 4)
    ELSE IF off < OFF_fg_text THEN ByteOf(s.config.quirks, off - OFF_quirks)
    ELSE ByteOf(g, off % 2)

(* c->mem[a] as an rvalue and as an lvalue, a any int >= 0.                *)
MemLoad(s, a, g, ub) ==
    IF a < MEM_SIZE THEN Get(s.mem, a)
    ELSE IF ub = "discard" THEN ByteOf(g, a % 2)
    ELSE LoadByte(s, a, g)

MemStore(s, a, b, ub) ==
    IF a < MEM_SIZE THEN [s EXCEPT !.mem = Put(@, a, b)]
    ELSE IF ub = "discard" THEN s
    ELSE StoreByte(s, a, b)

(* c->stack[k], k in 0..255.                                               *)
StackLoad(s, k, g, ub) ==
    IF k < STACK_SIZE THEN s.stack[k]
    ELSE IF ub = "discard" THEN g
    ELSE LoadByte(s, OFF_stack + 2 * k, g) + 256 * LoadByte(s, OFF_stack + 2 * k + 1, g)

StackStore(s, k, w, ub) ==
    IF k < STACK_SIZE THEN [s EXCEPT !.stack[k] = w]
    ELSE IF ub = "discard" THEN s
    ELSE StoreByte(StoreByte(s, OFF_stack + 2 * k, ByteOf(w, 0)),
                   OFF_stack + 2 * k + 1, ByteOf(w, 1))

(* c->display[k], k in 0..DISPLAY_SIZE.                                    *)
DisplayLoad(s, k, g, ub) ==
    IF k < DISPLAY_SIZE THEN Get(s.display, k)
    ELSE IF ub = "discard" THEN ByteOf(g, k % 2)
    ELSE LoadByte(s, OFF_display + k, g)

DisplayStore(s, k, b, ub) ==
    IF k < DISPLAY_SIZE THEN [s EXCEPT !.display = Put(@, k, b)]
    ELSE IF ub = "discard" THEN s
    ELSE StoreByte(s, OFF_display + k, b)

----------------------------------------------------------------------------
(* chip8_clear_screen and chip8_load_pixels.                               *)

chip8_clear_screen(s) == [s EXCEPT !.display = <<>>]

(* c->display[k] ^= mask *)
ToggleCell_Sets(old, mask) == BitOr(old, mask)

ToggleCell(old, mask) == BitXor(old, mask)

(* vf || (c->display[k] & mask) *)
Collides_LastCellOnly(vf, old, mask) == IF BitAnd(old, mask) # 0 THEN 1 ELSE 0

Collides(vf, old, mask) ==
    IF vf # 0 THEN 1 ELSE IF BitAnd(old, mask) # 0 THEN 1 ELSE 0

(* not_offscreen: zero when cell idx is the last of its display row.       *)
NotOffscreen_Wraps(idx) == 1

NotOffscreen(idx) == (idx + 1) % DISPLAY_WIDTH

(* One pass of the row loop of chip8_load_pixels, from row `row` on; src   *)
(* is the index in mem of the sprite (&c->mem[c->i] taken before the loop).*)
RECURSIVE load_pixels_rows(_, _, _, _, _, _, _, _, _)
load_pixels_rows(s, src, x, y, h, row, vf, g, ub) ==
    IF row >= h THEN [s |-> s, vf |-> vf]
    ELSE
      LET sprite_row == MemLoad(s, src + row, g, ub)
          start_bit == x % BYTE_SIZE
          rhs_bits == BYTE_SIZE - start_bit
          first_byte_mask == sprite_row \div (2 ^ start_bit)
          idx == (y + row) * DISPLAY_WIDTH + (x \div DISPLAY_WIDTH)
      IN
        IF idx >= DISPLAY_SIZE THEN [s |-> s, vf |-> vf]
        ELSE
          LET old1 == DisplayLoad(s, idx, g, ub)
              vf1 == Collides(vf, old1, first_byte_mask)
              s1 == DisplayStore(s, idx, ToggleCell(old1, first_byte_mask), ub)
              second_byte_mask ==
                  U8(BitAnd(sprite_row, 255 \div (2 ^ rhs_bits)) * (2 ^ rhs_bits))
              not_offscreen == NotOffscreen(idx)
              old2 == DisplayLoad(s1, idx + 1, g, ub)
              vf2 == IF not_offscreen # 0
                     THEN Collides(vf1, old2, second_byte_mask)
                     ELSE vf1
              s2 == DisplayStore(s1, idx + 1,
                        ToggleCell(old2, IF not_offscreen # 0 THEN second_byte_mask ELSE 0),
                        ub)
          IN load_pixels_rows(s2, src, x, y, h, row + 1, vf2, g, ub)

chip8_load_pixels(s, x0, y0, h, g, ub) ==
    LET x == x0 % (DISPLAY_WIDTH * BYTE_SIZE)
        y == y0 % DISPLAY_HEIGHT
        r == load_pixels_rows(s, s.i, x, y, h, 0, 0, g, ub)
    IN [r.s EXCEPT !.v[15] = r.vf]

(* The indices of c->display the row loop of chip8_load_pixels uses for a  *)
(* sprite of h rows at (x0, y0): idx and idx + 1 (both in                  *)
(* `c->display[idx] ^=` and `c->display[idx+1] ^=`) of every row the loop  *)
(* reaches; idx grows with the row, so the rows before the break are those *)
(* with idx < DISPLAY_SIZE.                                                *)
load_pixels_cells(x0, y0, h) ==
    LET x == x0 % (DISPLAY_WIDTH * BYTE_SIZE)
        y == y0 % DISPLAY_HEIGHT
        idx(row) == (y + row) * DISPLAY_WIDTH + (x \div DISPLAY_WIDTH)
    IN UNION {{idx(row), idx(row) + 1} :
                 row \in {r \in 0 .. h - 1 : idx(r) < DISPLAY_SIZE}}

----------------------------------------------------------------------------
(* chip8_decode_execute, one operator per case.  Each takes the struct     *)
(* after chip8_fetch (pc already advanced) and yields the struct after.    *)

(* case 0x0: 00E0 and 00EE are selected by NN alone.                       *)
op_return_PostDecrement(s, g, ub) ==
    LET jmp_pos == StackLoad(s, s.sp, g, ub)
    IN [s EXCEPT !.sp = U8(s.sp + 255), !.pc = jmp_pos]

op_return(s, g, ub) ==
    LET sp1 == U8(s.sp + 255)
        s1 == [s EXCEPT !.sp = sp1]
        jmp_pos == StackLoad(s1, sp1, g, ub)
    IN [s1 EXCEPT !.pc = jmp_pos]

op_0(s, instr, g, ub) ==
    IF NN(instr) = 224 THEN chip8_clear_screen(s)
    ELSE IF NN(instr) = 238 THEN op_return(s, g, ub)
    ELSE s

(* case 0x1 *)
op_jump_OffByOne(s, instr) == [s EXCEPT !.pc = NNN(instr) + 1]

op_jump(s, instr) == [s EXCEPT !.pc = NNN(instr)]

(* case 0x2: c->stack[c->sp++] = c->pc; c->pc = jmp_pos.                   *)
op_call(s, instr, ub) ==
    LET k == s.sp
        pushed == IF ub = "layout_store_last"
                  THEN StackStore([s EXCEPT !.sp = U8(k + 1)], k, s.pc, ub)
                  ELSE [StackStore(s, k, s.pc, ub) EXCEPT !.sp = U8(k + 1)]
    IN [pushed EXCEPT !.pc = NNN(instr)]

(* c->pc += cond * 2 *)
Skip(s, cond) == IF cond THEN [s EXCEPT !.pc = U16(@ + 2)] ELSE s

(* cases 0x3, 0x4, 0x5, 0x9 *)
op_skip_eq_imm(s, instr) == Skip(s, s.v[X(instr)] = NN(instr))
op_skip_ne_imm(s, instr) == Skip(s, s.v[X(instr)] # NN(instr))
op_skip_eq_reg(s, instr) == Skip(s, s.v[X(instr)] = s.v[Y(instr)])
op_skip_ne_reg(s, instr) == Skip(s, s.v[X(instr)] # s.v[Y(instr)])

(* cases 0x6, 0x7 *)
op_set_imm(s, instr) == [s EXCEPT !.v[X(instr)] = NN(instr)]
op_add_imm(s, instr) == [s EXCEPT !.v[X(instr)] = U8(@ + NN(instr))]

(* case 0x8: the flag is stored after vX, so it wins when X = 15.          *)
WithFlag_ValueLast(s, x, val, vf) == [[s EXCEPT !.v[15] = vf] EXCEPT !.v[x] = val]

WithFlag(s, x, val, vf) == [[s EXCEPT !.v[x] = val] EXCEPT !.v[15] = vf]

(* c->v[x] >= c->v[y] (N = 5) and c->v[x] <= c->v[y] (N = 7, a and b       *)
(* exchanged) as a uint8_t.                                                *)
NoBorrow_Strict(a, b) == IF a > b THEN 1 ELSE 0

NoBorrow(a, b) == IF a >= b THEN 1 ELSE 0

ShiftSource_OwnRegister(s, x, y) == s.v[x]

ShiftSource(s, x, y) ==
    IF BitAnd(s.config.quirks, QUIRK_SHIFT_USE_VY) # 0 THEN s.v[y] ELSE s.v[x]

op_alu(s, instr) ==
    LET x == X(instr)
        y == Y(instr)
        n == N(instr)
        vx == s.v[x]
        vy == s.v[y]
    IN CASE n = 0 -> [s EXCEPT !.v[x] = vy]
         [] n = 1 -> [s EXCEPT !.v[x] = BitOr(vx, vy)]
         [] n = 2 -> [s EXCEPT !.v[x] = BitAnd(vx, vy)]
         [] n = 3 -> [s EXCEPT !.v[x] = BitXor(vx, vy)]
         [] n = 4 -> WithFlag(s, x, U8(vx + vy), IF vx + vy > 255 THEN 1 ELSE 0)
         [] n = 5 -> WithFlag(s, x, U8(vx - vy + 256), NoBorrow(vx, vy))
         [] n = 7 -> WithFlag(s, x, U8(vy - vx + 256), NoBorrow(vy, vx))
         [] n = 6 -> LET src == ShiftSource(s, x, y)
                     IN WithFlag(s, x, src \div 2, src % 2)
         [] n = 14 -> LET src == ShiftSource(s, x, y)
                      IN WithFlag(s, x, U8(src * 2), Bit(src, 7))
         [] OTHER -> s

(* case 0xA *)
op_set_index(s, instr) == [s EXCEPT !.i = NNN(instr)]

(* case 0xB *)
JumpOffsetReg(s, instr) ==
    IF BitAnd(s.config.quirks, QUIRK_BXNN) # 0 THEN X(instr) ELSE 0

op_jump_offset(s, instr) ==
    [s EXCEPT !.i = U16(NNN(instr) + s.v[JumpOffsetReg(s, instr)])]

(* case 0xC: r is the byte rand() yields.                                  *)
op_rand(s, instr, r) == [s EXCEPT !.v[X(instr)] = BitAnd(r, NN(instr))]

(* case 0xD *)
op_draw(s, instr, g, ub) ==
    chip8_load_pixels(s, s.v[X(instr)], s.v[Y(instr)], N(instr), g, ub)

(* case 0xE.  KEY_FLAG shifts a 32-bit 1 by vX; a shift by 32 or more is   *)
(* undefined and kd is then the outcome of the test.                       *)
KeyDownByte(keystate, key, kd) ==
    IF key < 32 THEN KEY_DOWN(keystate, key) ELSE kd

op_key_skip(s, instr, kd) ==
    LET down == KeyDownByte(s.keys, s.v[X(instr)], kd)
    IN IF NN(instr) = 158 THEN Skip(s, down)
       ELSE IF NN(instr) = 161 THEN Skip(s, ~down)
       ELSE s

(* case 0xF, 0x0A: st is the static `store`.                               *)
KeyReleaseSeen_AnyChange(st, keys) == st # keys

KeyReleaseSeen(st, keys) == st > keys

RECURSIVE FirstKey(_, _)
FirstKey(diff, k) ==
    IF k < CKEY_ESC /\ ~KEY_DOWN(diff, k) THEN FirstKey(diff, k + 1) ELSE k

op_wait_key_NoRewind(s, st, instr) ==
    IF KeyReleaseSeen(st, s.keys)
    THEN [c |-> [s EXCEPT !.v[X(instr)] = U8(FirstKey(BitXor(st, s.keys), 0))],
          store |-> 0]
    ELSE [c |-> s, store |-> s.keys]

op_wait_key(s, st, instr) ==
    IF KeyReleaseSeen(st, s.keys)
    THEN [c |-> [s EXCEPT !.v[X(instr)] = U8(FirstKey(BitXor(st, s.keys), 0))],
          store |-> 0]
    ELSE [c |-> [s EXCEPT !.pc = U16(@ + 65534)], store |-> s.keys]

(* case 0xF, 0x07 / 0x15 / 0x18 *)
op_get_delay(s, instr) == [s EXCEPT !.v[X(instr)] = s.delay_timer]
op_set_delay(s, instr) == [s EXCEPT !.delay_timer = s.v[X(instr)]]
op_set_sound(s, instr) == [s EXCEPT !.delay_timer = s.v[X(instr)]]

(* case 0xF, 0x1E: c->v[0xF] = (c->i += c->v[reg]) > MEM_SIZE              *)
op_add_index(s, instr) ==
    LET sum == U16(s.i + s.v[X(instr)])
    IN [[s EXCEPT !.i = sum] EXCEPT !.v[15] = IF sum > MEM_SIZE THEN 1 ELSE 0]

(* case 0xF, 0x29 *)
op_font(s, instr) == [s EXCEPT !.i = N(s.v[X(instr)]) * 5 + FONT_DATA_OFFSET]

(* case 0xF, 0x33 *)
op_bcd(s, instr, ub) ==
    LET d == s.v[X(instr)]
        d3 == d % 10
        d2 == (d \div 10) % 10
        d1 == (d \div 10) \div 10
        s1 == MemStore(s, s.i, d1, ub)
        s2 == MemStore(s1, s1.i + 1, d2, ub)
    IN MemStore(s2, s2.i + 2, d3, ub)

(* case 0xF, 0x55 / 0x65: the loops, from index k on.                      *)
RECURSIVE store_regs(_, _, _, _)
store_regs(s, k, reg, ub) ==
    IF k > reg THEN s
    ELSE store_regs(MemStore(s, s.i + k, s.v[k], ub), k + 1, reg, ub)

RECURSIVE load_regs(_, _, _, _, _)
load_regs(s, k, reg, g, ub) ==
    IF k > reg THEN s
    ELSE load_regs([s EXCEPT !.v[k] = MemLoad(s, s.i + k, g, ub)], k + 1, reg, g, ub)

op_store_regs(s, instr, ub) ==
    LET s1 == store_regs(s, 0, X(instr), ub)
    IN IF BitAnd(s1.config.quirks, QUIRK_INC_INDEX) # 0
       THEN [s1 EXCEPT !.i = U16(@ + X(instr) + 1)]
       ELSE s1

op_load_regs_SkipsLast(s, instr, g, ub) == load_regs(s, 0, X(instr) - 1, g, ub)

op_load_regs(s, instr, g, ub) == load_regs(s, 0, X(instr), g, ub)

op_F(s, st, instr, g, ub) ==
    LET nn == NN(instr)
        same(t) == [c |-> t, store |-> st]
    IN CASE nn = 10 -> op_wait_key(s, st, instr)
         [] nn = 7 -> same(op_get_delay(s, instr))
         [] nn = 21 -> same(op_set_delay(s, instr))
         [] nn = 24 -> same(op_set_sound(s, instr))
         [] nn = 30 -> same(op_add_index(s, instr))
         [] nn = 41 -> same(op_font(s, instr))
         [] nn = 51 -> same(op_bcd(s, instr, ub))
         [] nn = 85 -> same(op_store_regs(s, instr, ub))
         [] nn = 101 -> same(op_load_regs(s, instr, g, ub))
         [] OTHER -> same(s)

(* The whole switch.  r, g and kd are what the environment decides: the    *)
(* byte of rand(), the value of storage the program does not own, and the  *)
(* outcome of an undefined shift.                                          *)
chip8_decode_execute(s, st, instr, r, g, kd, ub) ==
    LET op == OP(instr)
        same(t) == [c |-> t, store |-> st]
    IN CASE op = 0 -> same(op_0(s, instr, g, ub))
         [] op = 1 -> same(op_jump(s, instr))
         [] op = 2 -> same(op_call(s, instr, ub))
         [] op = 3 -> same(op_skip_eq_imm(s, instr))
         [] op = 4 -> same(op_skip_ne_imm(s, instr))
         [] op = 5 -> same(op_skip_eq_reg(s, instr))
         [] op = 9 -> same(op_skip_ne_reg(s, instr))
         [] op = 6 -> same(op_set_imm(s, instr))
         [] op = 7 -> same(op_add_imm(s, instr))
         [] op = 8 -> same(op_alu(s, instr))
         [] op = 10 -> same(op_set_index(s, instr))
         [] op = 11 -> same(op_jump_offset(s, instr))
         [] op = 12 -> same(op_rand(s, instr, r))
         [] op = 13 -> same(op_draw(s, instr, g, ub))
         [] op = 14 -> same(op_key_skip(s, instr, kd))
         [] op = 15 -> op_F(s, st, instr, g, ub)

----------------------------------------------------------------------------
(* Bounds of the model and the values the environment may supply.          *)

(* Keys 0..MaxKey can be pressed, and the exit key.                        *)
MaxKey == 1
(* Words of a program before its closing jump.                             *)
RomWords == 2
(* -ips ranges over 1..MaxIps and -fps over 1..MaxFps.                     *)
MaxIps == 2
MaxFps == 1
(* Frames the user watches before pressing the exit key, at the latest,    *)
(* when running a key-wait program, a call/return program, any other.      *)
KeyFrames == 4
StackFrames == 9
MainFrames == 4
(* The same for a program that sets the timers.                            *)
TimerFrames == 7
(* The same for a program that stores and loads registers.                 *)
IndexFrames == 3
(* Arithmetic instructions of a program after it has loaded v0 and v1, and *)
(* the frames it is watched for.                                           *)
AluWords == 1
AluFrames == 1
(* The same for programs that draw.                                        *)
DrawWords == 3
DrawFrames == 1
(* The same for programs of instructions outside the opcode table.         *)
DecodeFrames == 3
(* Memory instructions of a program after it has loaded i and v0, and the  *)
(* frames it is watched for.                                               *)
MemWords == 2
MemFrames == 1
(* Frames a program with odd jump targets is watched for.                  *)
AlignFrames == 3
(* Instructions of a program that stores, changes and loads registers, and *)
(* the frames it is watched for.                                           *)
BulkWords == 3
BulkFrames == 1

KeyMasks == (0 .. (2 ^ (MaxKey + 1)) - 1) \cup {KEY_FLAG(CKEY_ESC)}
RandBytes == {0, 1, 128, 255}
GarbageWords == {0, 515, 4095, 65535}
Rates == {r \in (1 .. MaxIps) \X (1 .. MaxFps) : r[1] >= r[2]}
AllQuirks == 0 .. (QUIRK_SHIFT_USE_VY + QUIRK_BXNN + QUIRK_INC_INDEX)

----------------------------------------------------------------------------
(* State.                                                                  *)

VARIABLES
    c,                      \* the struct Chip8 of main
    store,                  \* static KeyStates store of case 0x0A
    ub,                     \* what this build does on an out-of-bounds index
    instructions_per_sec,   \* main's locals
    frames_per_sec,
    at,                     \* where main is: "fetch", "execute", "tick",
                            \* "keys", "exit" (exit(1) in chip8_fetch), "quit"
    cycle,                  \* the counter i of main's for loop
    instruction,            \* main's local: the word chip8_fetch returned
    beeped,                 \* whether the last timer tick called platform_beep
    frame,                  \* frames left before the user quits
    \* history variables, read by no action's guard
    pre,                    \* the struct as it was before the last chip8_fetch
    lastPoll,               \* key mask at the previous poll of the FX0A wait
                            \* under way, -1 when no wait is under way
    firstPoll,              \* key mask at the first poll of the latest FX0A
                            \* wait, -1 before any wait
    pending,                \* calls not yet returned from, oldest first
    depthOk,                \* the number of pending calls has stayed in 0..16
    lastDraw,               \* << the struct before it, the instruction >> when
                            \* the instruction executed last was a DXYN, and
                            \* << >> otherwise
    lastStore               \* << i, X, v0..vX >> as the last FX55 found them,
                            \* << >> when there was none or an FX33 has
                            \* written to mem since

vars == << c, store, ub, instructions_per_sec, frames_per_sec, at, cycle,
           instruction, beeped, frame, pre, lastPoll, firstPoll, pending, depthOk,
           lastDraw, lastStore >>

hist == << pre, lastPoll, firstPoll, pending, depthOk, lastDraw, lastStore >>

----------------------------------------------------------------------------
(* Construction: main up to the frame loop.                                *)

RomBytes(words) ==
    [k \in 1 .. 2 * Len(words) |->
        IF k % 2 = 1 THEN words[(k + 1) \div 2] \div 256 ELSE words[k \div 2] % 256]

chip8_load_to_mem(m, offset, data) ==
    LET written == {offset + k - 1 : k \in 1 .. Len(data)}
        nonzero == {a \in written : data[a - offset + 1] # 0}
    IN [a \in ((DOMAIN m) \ written) \cup nonzero |->
            IF a \in written THEN data[a - offset + 1] ELSE m[a]]

(* The struct after Chip8 *c = &(Chip8){0}, parse_cmdline_args,            *)
(* chip8_load_to_mem of the font and chip8_load_rom.                       *)
Loaded(rom, quirks, ips, fps) ==
    [ mem |-> chip8_load_to_mem(
                  chip8_load_to_mem(<<>>, FONT_DATA_OFFSET, FONT_DATA),
                  PROGRAM_START_OFFSET, RomBytes(rom)),
      pc |-> PROGRAM_START_OFFSET,
      i |-> 0,
      stack |-> [k \in 0 .. STACK_SIZE - 1 |-> 0],
      sp |-> 0,
      delay_timer |-> 0,
      sound_timer |-> 0,
      v |-> [k \in 0 .. REG_COUNT - 1 |-> 0],
      display |-> <<>>,
      keys |-> 0,
      config |-> [instructions_per_frame |-> ips, frames_per_sec |-> fps,
                  quirks |-> quirks] ]

InitWith(roms, quirkSets, rates, builds, frames) ==
    \E rom \in roms, q \in quirkSets, rate \in rates, b \in builds :
        /\ c = Loaded(rom, q, rate[1], rate[2])
        /\ store = 0
        /\ ub = b
        /\ instructions_per_sec = rate[1]
        /\ frames_per_sec = rate[2]
        /\ at = "fetch"
        /\ cycle = 0
        /\ instruction = 0
        /\ beeped = FALSE
        /\ frame = frames
        /\ pre = Loaded(rom, q, rate[1], rate[2])
        /\ lastPoll = -1
        /\ firstPoll = -1
        /\ pending = <<>>
        /\ depthOk = TRUE
        /\ lastDraw = <<>>
        /\ lastStore = <<>>

----------------------------------------------------------------------------
(* chip8_fetch.                                                            *)

FetchFails_OffByTwo(s) == s.pc > MEM_SIZE

FetchFails(s) == s.pc + 2 > MEM_SIZE

FetchWord_LittleEndian(s) ==
    BitOr(Get(s.mem, s.pc), Get(s.mem, s.pc + 1) * (2 ^ BYTE_SIZE))

FetchWord(s) == BitOr(Get(s.mem, s.pc) * (2 ^ BYTE_SIZE), Get(s.mem, s.pc + 1))

Fetch ==
    /\ at = "fetch"
    /\ IF FetchFails(c)
       THEN /\ at' = "exit"
            /\ UNCHANGED << c, instruction, pre >>
       ELSE /\ instruction' = FetchWord(c)
            /\ c' = [c EXCEPT !.pc = U16(@ + 2)]
            /\ pre' = c
            /\ at' = "execute"
    /\ UNCHANGED << store, ub, instructions_per_sec, frames_per_sec, cycle,
                    beeped, frame, lastPoll, firstPoll, pending, depthOk,
                    lastDraw, lastStore >>

----------------------------------------------------------------------------
(* chip8_decode_execute and the for loop's ++i and test.                   *)

IsWaitKey(instr) == OP(instr) = 15 /\ NN(instr) = 10
IsCall(instr) == OP(instr) = 2
IsReturn(instr) == OP(instr) = 0 /\ NN(instr) = 238
IsDraw(instr) == OP(instr) = 13

RandChoices(instr) == IF OP(instr) = 12 THEN RandBytes ELSE {0}
ShiftChoices(instr) == IF OP(instr) = 14 THEN BOOLEAN ELSE {FALSE}
GarbageChoices(instr) ==
    IF OP(instr) \in {0, 13, 15} THEN GarbageWords ELSE {0}

CyclesPerFrame == instructions_per_sec \div frames_per_sec

Execute ==
    /\ at = "execute"
    /\ \E r \in RandChoices(instruction), g \in GarbageChoices(instruction),
          kd \in ShiftChoices(instruction) :
          LET res == chip8_decode_execute(c, store, instruction, r, g, kd, ub)
          IN /\ c' = res.c
             /\ store' = res.store
             /\ lastPoll' = IF IsWaitKey(instruction) /\ res.c.pc = pre.pc
                            THEN c.keys ELSE -1
    /\ firstPoll' = IF IsWaitKey(instruction) /\ lastPoll = -1
                    THEN c.keys ELSE firstPoll
    /\ cycle' = cycle + 1
    /\ at' = IF cycle + 1 < CyclesPerFrame THEN "fetch" ELSE "tick"
    /\ IF IsCall(instruction)
       THEN IF depthOk /\ Len(pending) < STACK_SIZE
            THEN /\ pending' = Append(pending, [ret |-> pre.pc + 2, sp |-> pre.sp])
                 /\ depthOk' = TRUE
            ELSE /\ pending' = <<>>
                 /\ depthOk' = FALSE
       ELSE IF IsReturn(instruction)
       THEN IF depthOk /\ Len(pending) > 0
            THEN /\ pending' = SubSeq(pending, 1, Len(pending) - 1)
                 /\ depthOk' = TRUE
            ELSE /\ pending' = <<>>
                 /\ depthOk' = FALSE
       ELSE UNCHANGED << pending, depthOk >>
    /\ lastDraw' = IF IsDraw(instruction) THEN << c, instruction >> ELSE <<>>
    /\ lastStore' = IF OP(instruction) = 15 /\ NN(instruction) = 85
                    THEN << c.i, X(instruction),
                            [k \in 0 .. X(instruction) |-> c.v[k]] >>
                    ELSE IF OP(instruction) = 15 /\ NN(instruction) = 51
                    THEN <<>> ELSE lastStore
    /\ UNCHANGED << ub, instructions_per_sec, frames_per_sec, instruction, beeped,
                    frame, pre >>

----------------------------------------------------------------------------
(* The end of a frame: the two timer statements (chip8_display only reads  *)
(* the struct), then platform_set_keystates and the exit-key test.         *)

TickDelay_Wraps(t) == U8(t + 255)

TickDelay(t) == IF t # 0 THEN t - 1 ELSE t
TickSound(t) == IF t # 0 THEN t - 1 ELSE t
Beeps(t) == t # 0

Tick ==
    /\ at = "tick"
    /\ c' = [c EXCEPT !.delay_timer = TickDelay(@), !.sound_timer = TickSound(@)]
    /\ beeped' = Beeps(c.sound_timer)
    /\ at' = "keys"
    /\ UNCHANGED << store, ub, instructions_per_sec, frames_per_sec, cycle,
                    instruction, frame, hist >>

KeysOffered == IF frame > 1 THEN KeyMasks ELSE {KEY_FLAG(CKEY_ESC)}

PollKeys ==
    /\ at = "keys"
    /\ \E k \in KeysOffered :
          /\ c' = [c EXCEPT !.keys = k]
          /\ at' = IF KEY_DOWN(k, CKEY_ESC) THEN "quit" ELSE "fetch"
    /\ cycle' = 0
    /\ frame' = frame - 1
    /\ UNCHANGED << store, ub, instructions_per_sec, frames_per_sec,
                    instruction, beeped, hist >>

Next == Fetch \/ Execute \/ Tick \/ PollKeys

----------------------------------------------------------------------------
(* Programs and specifications.  A program is RomWords instructions drawn  *)
(* from an alphabet, closed by a jump so that it does not run through the  *)
(* zero bytes that fill the rest of memory.                                *)

Programs(alphabet, closers) ==
    {body \o <<t>> : body \in [1 .. RomWords -> alphabet], t \in closers}

JumpToStart == \h1200
JumpToLastWord == \h1FFE
JumpPastLastWord == \h1FFF

KeyPrograms ==
    Programs({\hF00A, \hF10A, \h6107}, {JumpToStart, JumpToLastWord})

InitKeys == InitWith(KeyPrograms, {0}, Rates, {"discard"}, KeyFrames)
SpecKeys == InitKeys /\ [][Next]_vars

StackPrograms ==
    Programs({\h2200, \h2202, \h2204, \h00EE}, {JumpToStart, JumpToLastWord, \h00EE})

InitStack == InitWith(StackPrograms, {0}, Rates, UBModes, StackFrames)
SpecStack == InitStack /\ [][Next]_vars

MainPrograms ==
    Programs({\hC0FF, \hF015, \hF018, \hF107, \hB204},
             {JumpToStart, JumpToLastWord, JumpPastLastWord})

(* Programs that set the timers from v0 = 3.  SoundPoke reaches            *)
(* sound_timer the only way this code can: FX55 with i past the end of     *)
(* mem (i = 0xFFF + 39 is the offset of sound_timer in the struct); it     *)
(* then sets the delay timer and spins.                                    *)
SoundPoke == << \h6027, \hAFFF, \hF01E, \h6003, \hF055, \hF015, \h120C >>

TimerPrograms ==
    {<< \h6003 >> \o p : p \in Programs({\hF015, \hF018, \hF107},
                                        {JumpToStart, JumpToLastWord})}
        \cup {SoundPoke}

InitTimers == InitWith(TimerPrograms, {0}, Rates, UBModes, TimerFrames)
SpecTimers == InitTimers /\ [][Next]_vars

(* Programs that point i at 0x300 and store or load v0..vX, X = 0, 1, 15.  *)
IndexPrograms ==
    {<< \hA300 >> \o p : p \in Programs({\hF055, \hF155, \hFF55, \hF065, \hF165, \hFF65},
                                        {JumpToStart, JumpToLastWord})}

InitIndex ==
    InitWith(IndexPrograms, {0, QUIRK_INC_INDEX}, Rates, {"discard"}, IndexFrames)
SpecIndex == InitIndex /\ [][Next]_vars

(* Programs that load v0 and v1 and run AluWords arithmetic instructions   *)
(* with flags, on v0 and v1, with v15 as X or as Y, and with X = Y; they   *)
(* run within one frame.                                                   *)
AluValues == {5, 10, 255}
AluRegisters == {<<0, 1>>, <<15, 0>>, <<0, 15>>, <<0, 0>>}
AluInstructions ==
    {\h8000 + 256 * xy[1] + 16 * xy[2] + n : xy \in AluRegisters, n \in {4, 5, 7, 6, 14}}

AluPrograms ==
    {<< \h6000 + a, \h6100 + b >> \o body \o << JumpToLastWord >> :
        a \in AluValues, b \in AluValues, body \in [1 .. AluWords -> AluInstructions]}

InitAlu ==
    InitWith(AluPrograms, {0, QUIRK_SHIFT_USE_VY}, {<< AluWords + 3, 1 >>},
             {"discard"}, AluFrames)
SpecAlu == InitAlu /\ [][Next]_vars

(* Programs that load a position into v0 and v1, point i at a two-row      *)
(* sprite stored behind the program and draw DrawWords times: no row, one  *)
(* row or two, at (v0, v1).  The positions are byte-aligned, split between *)
(* two cells, cut by the right edge (124 mod 64 = 60) and by the bottom    *)
(* edge (63 mod 32 = 31).                                                  *)
DrawXs == {0, 5, 124}
DrawYs == {0, 63}
DrawInstructions == {\hD010, \hD011, \hD012}
SpriteRows == << \hFF81 >>
SpriteAddress == PROGRAM_START_OFFSET + 2 * (DrawWords + 4)

DrawPrograms ==
    {<< \h6000 + x, \h6100 + y, \hA000 + SpriteAddress >> \o body
            \o << JumpToLastWord >> \o SpriteRows :
        x \in DrawXs, y \in DrawYs, body \in [1 .. DrawWords -> DrawInstructions]}

InitDraw ==
    InitWith(DrawPrograms, {0}, {<< DrawWords + 5, 1 >>}, UBModes, DrawFrames)
SpecDraw == InitDraw /\ [][Next]_vars

(* Programs that draw the first row of the font's 0 at (0, 0) and then run *)
(* words the opcode table does not list, one per case of the switch that   *)
(* has such words.                                                         *)
UnlistedInstructions == {\h01E0, \h5011, \h9011, \h8018, \hE0FF, \hF0FF}

DecodePrograms ==
    {<< \hA000 + FONT_DATA_OFFSET, \hD001 >> \o p :
        p \in Programs(UnlistedInstructions, {JumpToStart, JumpToLastWord})}

InitDecode == InitWith(DecodePrograms, {0}, Rates, {"discard"}, DecodeFrames)
SpecDecode == InitDecode /\ [][Next]_vars

(* Programs that point i at the font, at free memory or at the last bytes  *)
(* of mem, load v0 and run MemWords of FX1E, FX33, FX55, FX65 with X = 0;  *)
(* they run within one frame.                                              *)
MemAddresses == {FONT_DATA_OFFSET, \h300, \hFFE, \hFFF}
MemValues == {1, 255}
MemInstructions == {\hF01E, \hF033, \hF055, \hF065}

MemPrograms ==
    {<< \hA000 + a, \h6000 + v >> \o body \o << JumpToLastWord >> :
        a \in MemAddresses, v \in MemValues, body \in [1 .. MemWords -> MemInstructions]}

InitMem == InitWith(MemPrograms, {0}, {<< MemWords + 3, 1 >>}, UBModes, MemFrames)
SpecMem == InitMem /\ [][Next]_vars

(* Programs that jump to or call an even or an odd address.  From 0x203    *)
(* the bytes 22 08 are a call of 0x208, which pushes 0x205, and 0x208      *)
(* holds 00EE.                                                             *)
AlignTargets == {\h202, \h203}

AlignPrograms ==
    {<< op + t, \h0022, \h0800, \h0000, \h00EE >> :
        op \in {\h1000, \h2000}, t \in AlignTargets}

InitAlign == InitWith(AlignPrograms, {0}, Rates, UBModes, AlignFrames)
SpecAlign == InitAlign /\ [][Next]_vars

(* Programs that point i at free memory or at the last two bytes of mem,   *)
(* load v0 = 0x11 and v1 = 0x22 and run BulkWords of: store or load v0 or  *)
(* v0..v1, change v1; they run within one frame.                           *)
BulkAddresses == {\h300, \hFFE}
BulkInstructions == {\hF055, \hF155, \hF065, \hF165, \h6107}

BulkPrograms ==
    {<< \hA000 + a, \h6011, \h6122 >> \o body \o << JumpToLastWord >> :
        a \in BulkAddresses, body \in [1 .. BulkWords -> BulkInstructions]}

InitBulk ==
    InitWith(BulkPrograms, {0, QUIRK_INC_INDEX}, {<< BulkWords + 4, 1 >>},
             UBModes, BulkFrames)
SpecBulk == InitBulk /\ [][Next]_vars

Init == InitWith(MainPrograms, {0, QUIRK_BXNN}, Rates, {"discard"}, MainFrames)
Spec == Init /\ [][Next]_vars

----------------------------------------------------------------------------
(* Properties.                                                             *)

Keypad == 0 .. 15

(* An Execute step of main on an FX0A instruction, and its two outcomes.   *)
WaitKeyStep == at = "execute" /\ at' # "execute" /\ IsWaitKey(instruction)
WaitCompletes == WaitKeyStep /\ c'.pc = c.pc
WaitStalls == WaitKeyStep /\ c'.pc # c.pc

(* Some key held at the previous poll of this wait is no longer held.      *)
ReleaseEdge ==
    /\ lastPoll # -1
    /\ \E k \in Keypad : KEY_DOWN(lastPoll, k) /\ ~KEY_DOWN(c.keys, k)

(* C1: an FX0A poll never completes on the first poll of a wait nor on a   *)
(* poll whose held-key mask equals the mask of the previous poll; when it  *)
(* completes, some key held at the previous poll is no longer held.        *)
C1_NoCompletionWithoutRelease ==
    [][WaitCompletes => (lastPoll # -1 /\ lastPoll # c.keys /\ ReleaseEdge)]_vars

(* A wait that began with a key already held has completed.                *)
C1_Witness ==
    /\ at # "execute"
    /\ IsWaitKey(instruction)
    /\ c.pc = pre.pc + 2
    /\ firstPoll > 0

(* C2: the value FX0A stores into vX is the number of a key that was held  *)
(* at the previous poll and is not held at the completing poll.            *)
C2_StoresReleasedKey ==
    [][WaitCompletes =>
          /\ lastPoll # -1
          /\ c'.v[X(instruction)] \in Keypad
          /\ KEY_DOWN(lastPoll, c'.v[X(instruction)])
          /\ ~KEY_DOWN(c.keys, c'.v[X(instruction)])]_vars

(* C3: a cycle in which FX0A does not complete (it has seen no release, or *)
(* it does not go on to the next instruction) leaves the whole struct as   *)
(* it was before the cycle's fetch, pc at the same FX0A instruction.       *)
C3_WaitingCycleChangesNothing ==
    [][(WaitKeyStep /\ (c'.pc # c.pc \/ ~ReleaseEdge)) =>
          /\ c'.pc = pre.pc
          /\ FetchWord(c') = instruction
          /\ c'.v = pre.v
          /\ c'.i = pre.i
          /\ c'.mem = pre.mem
          /\ c'.stack = pre.stack
          /\ c'.sp = pre.sp
          /\ c'.delay_timer = pre.delay_timer
          /\ c'.sound_timer = pre.sound_timer
          /\ c'.display = pre.display]_vars

(* A poll has just stalled with a register holding a nonzero value.        *)
C3_Witness ==
    /\ at # "execute"
    /\ IsWaitKey(instruction)
    /\ lastPoll # -1
    /\ c.pc = pre.pc
    /\ c.v[1] = 7

----------------------------------------------------------------------------
(* Call stack.                                                             *)

ExecuteStep == at = "execute" /\ at' # "execute"
CallStep == ExecuteStep /\ IsCall(instruction)
ReturnStep == ExecuteStep /\ IsReturn(instruction)

(* C4: the stack pointer stays in 0..16, and a call made with 16 return    *)
(* addresses on the stack stops the machine instead of pushing a 17th.     *)
C4_StackDepthWithinCapacity ==
    [][CallStep =>
          /\ c'.sp \in 0 .. STACK_SIZE
          /\ c.sp = STACK_SIZE => (at' = "exit" /\ c'.stack = c.stack)]_vars

(* C5: 00EE with an empty stack loads no stack slot into pc and does not   *)
(* wrap the stack pointer.                                                 *)
C5_ReturnOnEmptyStackGuarded ==
    [][(ReturnStep /\ c.sp = 0) => (c'.sp = 0 /\ c'.pc = c.pc)]_vars

(* C6: while the number of pending calls has stayed in 0..16, 00EE sets pc *)
(* to the address after the latest call not yet returned from and sp to    *)
(* its value before that call.                                             *)
C6_CallReturnLifo ==
    [][(ReturnStep /\ depthOk /\ Len(pending) > 0) =>
          /\ c'.pc = pending[Len(pending)].ret
          /\ c'.sp = pending[Len(pending)].sp]_vars

(* A return from a call nested in another call has been executed.          *)
C6_Witness ==
    /\ at # "execute"
    /\ IsReturn(instruction)
    /\ depthOk
    /\ Len(pending) = 1
    /\ pre.sp = 2
    /\ c.sp = 1
    /\ c.pc # pending[1].ret

----------------------------------------------------------------------------
(* Fetch.                                                                  *)

FetchStep == at = "fetch" /\ at' # "fetch"

(* C7: a fetch with pc + 2 <= 4096 yields mem[pc] * 256 + mem[pc + 1],     *)
(* advances pc by 2 and changes nothing else of the machine.               *)
C7_FetchContract ==
    [][(FetchStep /\ c.pc + 2 <= MEM_SIZE) =>
          /\ instruction' = Get(c.mem, c.pc) * 256 + Get(c.mem, c.pc + 1)
          /\ c' = [c EXCEPT !.pc = c.pc + 2]
          /\ store' = store]_vars

(* A word whose two bytes differ has just been fetched.                    *)
C7_Witness ==
    /\ at = "execute"
    /\ c.pc = pre.pc + 2
    /\ instruction \div 256 # instruction % 256
    /\ instruction = Get(pre.mem, pre.pc) * 256 + Get(pre.mem, pre.pc + 1)

(* C8: a fetch with pc + 2 > 4096 ends the run: the machine goes to a      *)
(* state it never leaves, the struct untouched, and every word that is     *)
(* fetched lies inside mem.                                                *)
C8_FetchPastMemoryIsFatal ==
    /\ [][(FetchStep /\ c.pc + 2 > MEM_SIZE) => (at' = "exit" /\ c' = c)]_vars
    /\ [][at = "exit" => at' = "exit" /\ c' = c /\ instruction' = instruction]_vars
    /\ [][FetchStep /\ at' = "execute" => c.pc + 1 < MEM_SIZE]_vars

(* The run has ended in chip8_fetch with pc at the last byte of memory     *)
(* (a jump to 0xFFF).                                                      *)
C8_Witness == at = "exit" /\ c.pc = MEM_SIZE - 1

----------------------------------------------------------------------------
(* Jump with offset and timer transfers.                                   *)

BxnnEnabled == BitAnd(c.config.quirks, QUIRK_BXNN) # 0

(* C9: after BNNN, pc = NNN + v0, or NNN + vX with the bxnn quirk on.      *)
C9_JumpWithOffsetSetsPc ==
    [][(ExecuteStep /\ OP(instruction) = 11) =>
          c'.pc = NNN(instruction)
                    + c.v[IF BxnnEnabled THEN X(instruction) ELSE 0]]_vars

(* C10: FX07 copies the delay timer into vX, FX15 copies vX into the delay *)
(* timer and FX18 copies vX into the sound timer, each leaving the other   *)
(* timer as it was.                                                        *)
C10_TimerTransfers ==
    [][(ExecuteStep /\ OP(instruction) = 15) =>
          /\ NN(instruction) = 7 => c'.v[X(instruction)] = c.delay_timer
          /\ NN(instruction) = 21 =>
                /\ c'.delay_timer = c.v[X(instruction)]
                /\ c'.sound_timer = c.sound_timer
          /\ NN(instruction) = 24 =>
                /\ c'.sound_timer = c.v[X(instruction)]
                /\ c'.delay_timer = c.delay_timer]_vars

----------------------------------------------------------------------------
(* Timers.                                                                 *)

TickStep == at = "tick" /\ at' # "tick"
IsSetDelay(instr) == OP(instr) = 15 /\ NN(instr) = 21
IsSetSound(instr) == OP(instr) = 15 /\ NN(instr) = 24

(* C11: a tick beeps exactly when the sound timer is nonzero and then      *)
(* decrements it, and the tick that follows an FX18 with vX >= 1 beeps     *)
(* (it is the first of the vX ticks that must).                            *)
C11_BeepsFollowSetSound ==
    [][TickStep =>
          /\ beeped' = (c.sound_timer # 0)
          /\ c'.sound_timer = IF c.sound_timer # 0 THEN c.sound_timer - 1 ELSE 0
          /\ (IsSetSound(instruction) /\ c.v[X(instruction)] >= 1) => beeped']_vars

(* An instruction that stores past the end of mem or of stack: what it     *)
(* overwrites is not decided by the instruction set.                       *)
StoresPastArray ==
    \/ OP(instruction) = 15 /\ NN(instruction) = 85
          /\ c.i + X(instruction) >= MEM_SIZE
    \/ OP(instruction) = 15 /\ NN(instruction) = 51 /\ c.i + 2 >= MEM_SIZE
    \/ IsCall(instruction) /\ c.sp >= STACK_SIZE

----------------------------------------------------------------------------
(* Register store and load.                                                *)

IsStoreRegs(instr) == OP(instr) = 15 /\ NN(instr) = 85
IsLoadRegs(instr) == OP(instr) = 15 /\ NN(instr) = 101
IncIndexEnabled == BitAnd(c.config.quirks, QUIRK_INC_INDEX) # 0

(* C13: after FX55 and after FX65, i is its old value plus X + 1 with the  *)
(* increment-index quirk on, and its old value with the quirk off.         *)
C13_IncrementIndexQuirk ==
    [][(ExecuteStep /\ (IsStoreRegs(instruction) \/ IsLoadRegs(instruction))) =>
          c'.i = IF IncIndexEnabled THEN c.i + X(instruction) + 1 ELSE c.i]_vars

----------------------------------------------------------------------------
(* Arithmetic with flags.                                                  *)

AluStep(n) == ExecuteStep /\ OP(instruction) = 8 /\ N(instruction) = n
OldVx == c.v[X(instruction)]
OldVy == c.v[Y(instruction)]
OthersKept ==
    \A k \in 0 .. 14 : k # X(instruction) => c'.v[k] = c.v[k]

(* C14 as stated: after 8XY4, v15 = 1 iff old vX + old vY > 255 (else 0)   *)
(* and vX = (old vX + old vY) mod 256, for all X and Y, 15 included.       *)
C14_AddWithCarry_AnyX ==
    [][AluStep(4) =>
          /\ c'.v[15] = (IF OldVx + OldVy > 255 THEN 1 ELSE 0)
          /\ c'.v[X(instruction)] = (OldVx + OldVy) % 256]_vars

(* C14, amended: after 8XY4, v15 = 1 iff old vX + old vY > 255 (else 0),   *)
(* for all X and Y; vX = (old vX + old vY) mod 256 when X # 15 (when       *)
(* X = 15 the register holds the flag); no other register changes.         *)
C14_AddWithCarry ==
    [][AluStep(4) =>
          /\ c'.v[15] = (IF OldVx + OldVy > 255 THEN 1 ELSE 0)
          /\ X(instruction) # 15 => c'.v[X(instruction)] = (OldVx + OldVy) % 256
          /\ OthersKept]_vars

(* 8F04 has been executed with a sum that is not its own carry: v15 holds  *)
(* the carry.                                                              *)
C14_Witness ==
    /\ at # "execute"
    /\ instruction = \h8F04
    /\ pre.v[15] + pre.v[0] \in 2 .. 255
    /\ c.v[15] = 0
    /\ c.v[0] = pre.v[0]

(* C15 as stated: 8XY5 sets vX to (vX - vY) mod 256 and v15 = 1 iff        *)
(* vX >= vY, 8XY7 sets vX to (vY - vX) mod 256 and v15 = 1 iff vY >= vX,   *)
(* all on the values before the instruction, for every X and Y.            *)
C15_SubtractFlags_AnyX ==
    /\ [][AluStep(5) =>
             /\ c'.v[X(instruction)] = (OldVx - OldVy) % 256
             /\ c'.v[15] = (IF OldVx >= OldVy THEN 1 ELSE 0)]_vars
    /\ [][AluStep(7) =>
             /\ c'.v[X(instruction)] = (OldVy - OldVx) % 256
             /\ c'.v[15] = (IF OldVy >= OldVx THEN 1 ELSE 0)]_vars

(* C15, amended: the flags as stated, for every X and Y; the differences   *)
(* in vX when X # 15 (when X = 15 the register holds the flag); no other   *)
(* register changes.                                                       *)
C15_SubtractFlags ==
    /\ [][AluStep(5) =>
             /\ X(instruction) # 15 => c'.v[X(instruction)] = (OldVx - OldVy) % 256
             /\ c'.v[15] = (IF OldVx >= OldVy THEN 1 ELSE 0)
             /\ OthersKept]_vars
    /\ [][AluStep(7) =>
             /\ X(instruction) # 15 => c'.v[X(instruction)] = (OldVy - OldVx) % 256
             /\ c'.v[15] = (IF OldVy >= OldVx THEN 1 ELSE 0)
             /\ OthersKept]_vars

(* 8015 has been executed with vX = 5 and vY = 10: 251 and a borrow.       *)
C15_Witness ==
    /\ at # "execute"
    /\ instruction = \h8015
    /\ pre.v[0] = 5
    /\ pre.v[1] = 10
    /\ c.v[0] = 251
    /\ c.v[15] = 0

ShiftUsesVy == BitAnd(c.config.quirks, QUIRK_SHIFT_USE_VY) # 0
ShiftOperand == IF ShiftUsesVy THEN OldVy ELSE OldVx

----------------------------------------------------------------------------
(* Drawing.  Pixel (col, row) of a display is bit 7 - col mod 8 of cell    *)
(* row * 8 + col div 8, as chip8_display prints it.                        *)

ScreenWidth == DISPLAY_WIDTH * BYTE_SIZE
DrawStep == ExecuteStep /\ IsDraw(instruction)

PixelOn(d, px) ==
    Bit(Get(d, px[2] * DISPLAY_WIDTH + (px[1] \div BYTE_SIZE)), 7 - (px[1] % BYTE_SIZE)) = 1

(* Bit b (0 = leftmost) of row r of the sprite at i.                       *)
SpriteBitSet(s, r, b) == Bit(Get(s.mem, s.i + r), 7 - b) = 1

(* The pixels the claims say DXYN toggles, drawn from state s: (x + b,     *)
(* y + r) for every set bit b of every row r < N, when on the screen.      *)
SpritePixels(s, instr) ==
    LET x == s.v[X(instr)] % ScreenWidth
        y == s.v[Y(instr)] % DISPLAY_HEIGHT
    IN {<< x + b, y + r >> : << r, b >> \in
            {rb \in (0 .. N(instr) - 1) \X (0 .. 7) :
                /\ SpriteBitSet(s, rb[1], rb[2])
                /\ x + rb[2] < ScreenWidth
                /\ y + rb[1] < DISPLAY_HEIGHT}}

CellOf(px) == px[2] * DISPLAY_WIDTH + (px[1] \div BYTE_SIZE)
PixelsOf(cells) ==
    {<< (k % DISPLAY_WIDTH) * BYTE_SIZE + b, k \div DISPLAY_WIDTH >> :
        << k, b >> \in cells \X (0 .. 7)}

(* The pixels of every cell that is nonzero in d1 or in d2 or holds one of *)
(* the pixels in pxs.  A pixel outside this set is off in d1 and in d2 and *)
(* is not in pxs.                                                          *)
PixelsInPlay(d1, d2, pxs) ==
    PixelsOf((DOMAIN d1) \cup (DOMAIN d2) \cup {CellOf(px) : px \in pxs})

SpriteInMem == c.i + N(instruction) <= MEM_SIZE

(* The instruction executed last was this same DXYN, and vX, vY, i and the *)
(* sprite's bytes are what they were before it.                            *)
RepeatsLastDraw ==
    /\ lastDraw # <<>>
    /\ lastDraw[2] = instruction
    /\ lastDraw[1].v[X(instruction)] = c.v[X(instruction)]
    /\ lastDraw[1].v[Y(instruction)] = c.v[Y(instruction)]
    /\ lastDraw[1].i = c.i
    /\ \A r \in 0 .. N(instruction) - 1 :
          Get(lastDraw[1].mem, c.i + r) = Get(c.mem, c.i + r)

(* C17 as stated: the second of two equal draws in a row restores the      *)
(* display of before the first, and sets v15 = 1 iff the first toggled at  *)
(* least one pixel.                                                        *)
C17_DrawTwiceRestores_Toggled ==
    [][(DrawStep /\ RepeatsLastDraw) =>
          /\ c'.display = lastDraw[1].display
          /\ (c'.v[15] = 1) <=> (c.display # lastDraw[1].display)
          /\ c'.v[15] \in {0, 1}]_vars

(* C17, amended: the second of two equal draws in a row restores the       *)
(* display of before the first, and sets v15 = 1 iff the first turned on   *)
(* at least one pixel (a pixel the first turned off is off before the      *)
(* second and cannot collide).                                             *)
C17_DrawTwiceRestores ==
    [][(DrawStep /\ RepeatsLastDraw) =>
          /\ c'.display = lastDraw[1].display
          /\ (c'.v[15] = 1) <=>
                (\E px \in PixelsOf(DOMAIN c.display) :
                    PixelOn(c.display, px) /\ ~PixelOn(lastDraw[1].display, px))
          /\ c'.v[15] \in {0, 1}]_vars

(* A draw on an empty display has been repeated (the word before it in    *)
(* the program is the same DXYN): the display is empty again and v15 = 1.  *)
C17_Witness ==
    /\ at # "execute"
    /\ IsDraw(instruction)
    /\ lastDraw # <<>>
    /\ FetchWord([pre EXCEPT !.pc = pre.pc - 2]) = instruction
    /\ pre.display # <<>>
    /\ c.display = <<>>
    /\ c.v[15] = 1

(* C18: after DXYN, v15 = 1 iff a pixel that was on is one of the pixels   *)
(* the draw toggles, and 0 otherwise, also when no row is drawn.           *)
C18_CollisionFlag ==
    [][(DrawStep /\ SpriteInMem) =>
          c'.v[15] = IF \E px \in SpritePixels(c, instruction) : PixelOn(c.display, px)
                     THEN 1 ELSE 0]_vars

(* A two-row draw has erased its first row, drawn by the draw before it,   *)
(* and turned on its second: v15 = 1 from a collision in the first row     *)
(* alone.                                                                  *)
C18_Witness ==
    /\ at # "execute"
    /\ instruction = \hD012
    /\ FetchWord([pre EXCEPT !.pc = pre.pc - 2]) = \hD011
    /\ pre.display # <<>>
    /\ c.display # <<>>
    /\ \A px \in PixelsOf(DOMAIN c.display) :
          ~(PixelOn(c.display, px) /\ PixelOn(pre.display, px))
    /\ c.v[15] = 1

(* C19: after DXYN the display is the display before with exactly the      *)
(* sprite's on-screen pixels toggled; it has no cell outside 0..255.       *)
C19_DrawClips ==
    [][(DrawStep /\ SpriteInMem) =>
          /\ DOMAIN c'.display \subseteq 0 .. DISPLAY_SIZE - 1
          /\ \A px \in PixelsInPlay(c.display, c'.display, SpritePixels(c, instruction)) :
                PixelOn(c'.display, px) <=>
                    (PixelOn(c.display, px) # (px \in SpritePixels(c, instruction)))]_vars

(* A two-row sprite has been drawn at (60, 31) on an empty display: the    *)
(* four leftmost bits of its first row are on in the last cell, and        *)
(* nothing else.                                                           *)
C19_Witness ==
    /\ at # "execute"
    /\ instruction = \hD012
    /\ pre.v[0] = 124
    /\ pre.v[1] = 63
    /\ pre.display = <<>>
    /\ DOMAIN c.display = {DISPLAY_SIZE - 1}
    /\ c.display[DISPLAY_SIZE - 1] = 15

----------------------------------------------------------------------------
(* Instructions outside the opcode table.                                  *)

(* The encodings the opcode table lists.                                   *)
Recognized(instr) ==
    \/ instr \in {\h00E0, \h00EE}
    \/ OP(instr) \in {1, 2, 3, 4, 6, 7, 10, 11, 12, 13}
    \/ OP(instr) \in {5, 9} /\ N(instr) = 0
    \/ OP(instr) = 8 /\ N(instr) \in (0 .. 7) \cup {14}
    \/ OP(instr) = 14 /\ NN(instr) \in {\h9E, \hA1}
    \/ OP(instr) = 15 /\ NN(instr) \in {\h07, \h0A, \h15, \h18, \h1E, \h29, \h33, \h55, \h65}

(* C20: executing an instruction the opcode table does not list leaves the *)
(* machine as the fetch left it (pc advanced by 2, nothing else changed)   *)
(* and does not stop it.                                                   *)
C20_UnrecognizedIsNoOp ==
    [][(ExecuteStep /\ ~Recognized(instruction)) =>
          /\ c' = c
          /\ c.pc = pre.pc + 2
          /\ store' = store
          /\ at' # "exit"]_vars

----------------------------------------------------------------------------
(* Memory.                                                                 *)

IsBcd(instr) == OP(instr) = 15 /\ NN(instr) = 51
IsAddIndex(instr) == OP(instr) = 15 /\ NN(instr) = 30

(* C21: the 80 bytes of mem from 0x050 hold the font data in every         *)
(* reachable state.                                                        *)
C21_FontNeverMutated ==
    \A k \in 1 .. Len(FONT_DATA) : Get(c.mem, FONT_DATA_OFFSET + k - 1) = FONT_DATA[k]

(* C22: whenever FX33 is executed i + 2 <= 4095, and whenever FX55 or FX65 *)
(* is executed i + X <= 4095: every byte they read or write is in mem.     *)
C22_DataAddressesInMemory ==
    [][ExecuteStep =>
          /\ IsBcd(instruction) => c.i + 2 <= MEM_SIZE - 1
          /\ (IsStoreRegs(instruction) \/ IsLoadRegs(instruction)) =>
                c.i + X(instruction) <= MEM_SIZE - 1]_vars

(* C23: FX1E sets i to i + vX and v15 to 1 if i + vX > 4095, the last      *)
(* address of mem, and to 0 otherwise.                                     *)
C23_AddIndexFlag ==
    [][(ExecuteStep /\ IsAddIndex(instruction)) =>
          /\ c'.i = c.i + c.v[X(instruction)]
          /\ c'.v[15] = IF c.i + c.v[X(instruction)] > MEM_SIZE - 1 THEN 1 ELSE 0]_vars

(* C24: an FX0A poll that finds a key held at the previous poll of the     *)
(* wait no longer held completes the instruction, whatever the other keys  *)
(* are doing.                                                              *)
C24_ReleaseEdgeCompletesWait ==
    [][(WaitKeyStep /\ ReleaseEdge) => WaitCompletes]_vars

----------------------------------------------------------------------------
(* Program counter.                                                        *)

----------------------------------------------------------------------------
(* Frame loop.                                                             *)

KeysStep == at = "keys" /\ at' # "keys"

(* Each frame runs floor(ips / fps) >= 1 cycles, then the timer tick, then *)
(* the key refresh, which starts the next frame or quits.                  *)
FrameOrder ==
    /\ instructions_per_sec \div frames_per_sec >= 1
    /\ ExecuteStep =>
          /\ cycle' = cycle + 1
          /\ at' = "tick" <=> cycle' = instructions_per_sec \div frames_per_sec
          /\ at' = "fetch" <=> cycle' < instructions_per_sec \div frames_per_sec
    /\ TickStep => at' = "keys" /\ cycle' = cycle
    /\ KeysStep => at' \in {"fetch", "quit"} /\ cycle' = 0
    /\ FetchStep => cycle' = cycle

(* The key mask changes at the key refresh only.                           *)
KeysRefreshedPerFrame == c'.keys # c.keys => KeysStep

(* The timers change at the tick, by at most one, and through FX15 / FX18. *)
TimersChangePerFrame ==
    /\ (c'.delay_timer # c.delay_timer \/ c'.sound_timer # c.sound_timer) =>
          \/ TickStep
          \/ ExecuteStep /\ (IsSetDelay(instruction) \/ IsSetSound(instruction))
    /\ TickStep =>
          /\ c'.delay_timer \in {c.delay_timer, c.delay_timer - 1}
          /\ c'.sound_timer \in {c.sound_timer, c.sound_timer - 1}

C26_FrameOrder == [][FrameOrder]_vars
C26_KeysRefreshedPerFrame == [][KeysRefreshedPerFrame]_vars
C26_TimersChangePerFrame == [][TimersChangePerFrame]_vars

(* C26: each frame executes floor(ips / fps) >= 1 cycles, then ticks both  *)
(* timers once, then refreshes the key mask; the key mask is constant      *)
(* across the cycles of a frame and the timers change between two cycles   *)
(* of a frame through FX15 / FX18 only.                                    *)
C26_FrameLoopOrdering ==
    [][FrameOrder /\ KeysRefreshedPerFrame /\ TimersChangePerFrame]_vars

----------------------------------------------------------------------------
(* Bulk store and load.                                                    *)

BulkInMem == ~IncIndexEnabled /\ c.i + X(instruction) <= MEM_SIZE - 1

(* FX55 puts vk at mem[i + k] for k in 0..X and changes no other byte.     *)
StoreWrites ==
    (ExecuteStep /\ IsStoreRegs(instruction) /\ BulkInMem) =>
        \A a \in 0 .. MEM_SIZE - 1 :
            Get(c'.mem, a) = IF a \in c.i .. c.i + X(instruction)
                             THEN c.v[a - c.i] ELSE Get(c.mem, a)

(* FX65 sets vk to mem[i + k] for k in 0..X and keeps the other registers. *)
LoadReads ==
    (ExecuteStep /\ IsLoadRegs(instruction) /\ BulkInMem) =>
        \A k \in 0 .. 15 :
            c'.v[k] = IF k <= X(instruction) THEN Get(c.mem, c.i + k) ELSE c.v[k]

(* The FX65 executed now has the X and the i of the last FX55.             *)
LoadsLastStore ==
    /\ ExecuteStep /\ IsLoadRegs(instruction) /\ BulkInMem
    /\ lastStore # <<>>
    /\ lastStore[1] = c.i
    /\ lastStore[2] = X(instruction)

(* C27: with the increment-index quirk off and i + X <= 4095, FX55 writes  *)
(* mem[i + k] = vk for k in 0..X and no other byte, and an FX65 with the   *)
(* same X and i after it gives v0..vX the values they had at the FX55 and  *)
(* leaves vX+1..v15 as they are.                                           *)
C27_BulkRoundTrip ==
    [][/\ StoreWrites
       /\ LoadReads
       /\ LoadsLastStore =>
             \A k \in 0 .. 15 :
                c'.v[k] = IF k <= X(instruction) THEN lastStore[3][k] ELSE c.v[k]]_vars

(* F165 has brought back v0 = 0x11 and v1 = 0x22 stored by F155, v1 having *)
(* been changed to 7 in between.                                           *)
C27_Witness ==
    /\ at # "execute"
    /\ instruction = \hF165
    /\ ~IncIndexEnabled
    /\ lastStore # <<>>
    /\ lastStore[1] = c.i
    /\ lastStore[2] = 1
    /\ FetchWord([c EXCEPT !.pc = c.pc - 4]) = \h6107
    /\ c.v[0] = 17
    /\ c.v[1] = 34

(* C28: every index of display that a DXYN reads or writes, the left cell  *)
(* idx and the right cell idx + 1 of each row drawn, is in 0..255.         *)
C28_DrawStaysInDisplay ==
    [][DrawStep =>
          \A k \in load_pixels_cells(c.v[X(instruction)], c.v[Y(instruction)],
                                     N(instruction)) :
             k \in 0 .. DISPLAY_SIZE - 1]_vars

====
